---- MODULE Spec2Model ----
(***************************************************************************)
(* A model of the path-oriented key/value store of guess-who               *)
(* (src/guess-who/src/persistence/pathStore.ts).                           *)
(*                                                                         *)
(* The IndexedDb object store is a set of records keyed by `key`.  Every   *)
(* public API call is an asynchronous function: it creates database        *)
(* transactions and suspends until their completion handlers run.  One     *)
(* action of the model is one such handler together with the code that     *)
(* runs up to the next await.  Strings that the code cuts and glues (keys  *)
(* and paths) are sequences of one-character strings.                      *)
(***************************************************************************)
EXTENDS Integers, Sequences, FiniteSets, TLC

VARIABLES
    store,      \* the KeyValue object store: a set of KeyValueRecord
    now,        \* the value Date.now() returns
    txs,        \* transactions created and not yet finished, in creation order
    call,       \* the public API call made last: arguments, status, result
    pre,        \* history: the store when that call was made
    lastSet,    \* history: the last completed setText/setBytes, while its key is untouched
    rival,      \* a setText call made by another caller while `call` may be pending
    util,       \* the pathUtil / mimeTypes function applied last: argument and result
    llm         \* the state of the llmUtil module, and the llmUtil call made last

storeVars == <<store, now, txs, call, pre, lastSet, rival>>

vars == <<store, now, txs, call, pre, lastSet, rival, util, llm>>

----------------------------------------------------------------------------
(* Bounds of the model. *)

MaxClock == 1       \* Date.now() ranges over 0..MaxClock
MaxVersion == 2     \* persisted records carry appDataVersion 0..MaxVersion
MaxKeyLen == 5      \* renames that would build a longer key are not started

----------------------------------------------------------------------------
(* Program constants. *)

APP_DATA_VERSION == 1
MIMETYPE_OCTET_STREAM == "application/octet-stream"
MIMETYPE_PLAIN_TEXT == "text/plain"

(* JavaScript's null and undefined, per field type. *)
NULL == "null"
UNDEFINED == "undefined"
UndefinedStr == <<"undefined">>
UndefinedNum == -1

----------------------------------------------------------------------------
(* Strings. *)

Slash == "/"
Chars == {"/", "a", "b"}

S_a == <<"a">>
S_b == <<"b">>
S_ab == <<"a", "/", "b">>
S_ba == <<"b", "a">>
S_aSl == <<"a", "/">>
S_bSl == <<"b", "/">>
S_empty == <<>>

(* key.slice(n) *)
slice(s, n) == SubSeq(s, n + 1, Len(s))

(* s.startsWith(p) *)
startsWith(s, p) == Len(p) <= Len(s) /\ SubSeq(s, 1, Len(p)) = p

(* Character codes decide the order in which IndexedDb lists keys. *)
CharCode(c) == CASE c = "/" -> 47 [] c = "a" -> 97 [] c = "b" -> 98 [] OTHER -> 0

RECURSIVE KeyLess(_, _)
KeyLess(s, t) ==
    IF s = <<>> THEN t # <<>>
    ELSE IF t = <<>> THEN FALSE
    ELSE IF Head(s) = Head(t) THEN KeyLess(Tail(s), Tail(t))
    ELSE CharCode(Head(s)) < CharCode(Head(t))

RECURSIVE SortedKeys(_)
SortedKeys(S) ==
    IF S = {} THEN <<>>
    ELSE LET m == CHOOSE k \in S : \A o \in S \ {k} : KeyLess(k, o)
         IN  <<m>> \o SortedKeys(S \ {m})

(* pathUtil.keyToPath: the key up to and including its last "/", "" without one. *)
LastSlash(key) ==
    LET at == {i \in 1..Len(key) : key[i] = Slash}
    IN  IF at = {} THEN 0 ELSE CHOOSE i \in at : \A j \in at : j <= i

keyToPath(key) == SubSeq(key, 1, LastSlash(key))

----------------------------------------------------------------------------
(* Records and the object store primitives. *)

KeyValueRecord(key, path, appDataVersion, mimeType, lastModified, text, bytes) ==
    [key |-> key, path |-> path, appDataVersion |-> appDataVersion,
     mimeType |-> mimeType, lastModified |-> lastModified, text |-> text, bytes |-> bytes]

(* What request.result is when the store has no record under the key. *)
Undefined ==
    KeyValueRecord(UndefinedStr, UndefinedStr, UndefinedNum, UNDEFINED, UndefinedNum,
                   UNDEFINED, UNDEFINED)

(* The object literal { key }. *)
KeyOnlyRecord(key) == [Undefined EXCEPT !.key = key]

Keys(st) == {r.key : r \in st}

(* objectStore.get(key) *)
_get(st, key) ==
    IF key \in Keys(st) THEN CHOOSE r \in st : r.key = key ELSE Undefined

(* As _put, on a store that does not replace the record of the same key. *)
_put_adds(st, objectToStore) == st \cup {objectToStore}

(* objectStore.put(objectToStore): insert or replace by the key path 'key' *)
_put(st, objectToStore) ==
    {r \in st : r.key # objectToStore.key} \cup {objectToStore}

(* As _delete, removing every record whose key starts with the key given. *)
_delete_byPrefix(st, key) == {r \in st : ~startsWith(r.key, key)}

(* objectStore.delete(key) *)
_delete(st, key) == {r \in st : r.key # key}

(* pathIndex.getAll(path): the records whose path field is the argument, by key *)
IndexGetAll(st, path) ==
    LET ks == SortedKeys({r.key : r \in {x \in st : x.path = path}})
    IN  [i \in 1..Len(ks) |-> _get(st, ks[i])]

----------------------------------------------------------------------------
(* The code of the store, as functions of what it reads. *)

(* As _upgradeRecord, with a step that stamps every record as upgraded. *)
_upgradeRecord_stamps(record) == [record EXCEPT !.appDataVersion = APP_DATA_VERSION]

(* _upgradeRecord: every handler is commented out, the record is left as it is *)
_upgradeRecord(record) == record

(* As UpgradeThrows, when the last check of _upgradeRecord is left out. *)
UpgradeThrows_never(record) == FALSE

(* _upgradeRecord's last check: the record is still not at APP_DATA_VERSION *)
UpgradeThrows(record) == _upgradeRecord(record).appDataVersion # APP_DATA_VERSION

(* As _getRecordByKey, without the check for a version above the expected one. *)
_getRecordByKey_acceptsNewer(record) ==
    IF record = Undefined THEN "TypeError"
    ELSE IF record.appDataVersion >= APP_DATA_VERSION THEN "return"
    ELSE IF UpgradeThrows(record) THEN "UnupgradableRecord"
    ELSE "upgraded"

(* _getRecordByKey, after its _get: what it does with request.result *)
_getRecordByKey(record) ==
    IF record = Undefined THEN "TypeError"
    ELSE IF record.appDataVersion = APP_DATA_VERSION THEN "return"
    ELSE IF record.appDataVersion > APP_DATA_VERSION THEN "VersionTooNew"
    ELSE IF UpgradeThrows(record) THEN "UnupgradableRecord"
    ELSE "upgraded"

(* x ?? null *)
OrNull(x) == IF x \in {NULL, UNDEFINED} THEN NULL ELSE x

(* As _setFieldValue, without the assignment record[fieldName] = fieldValue. *)
_setFieldValue_dropsField(found, key, fieldName, fieldValue, mimeType, t) ==
    LET record == IF found = Undefined THEN KeyOnlyRecord(key) ELSE found
    IN  [record EXCEPT !.path = keyToPath(key),
                       !.appDataVersion = APP_DATA_VERSION,
                       !.mimeType = mimeType,
                       !.lastModified = t]

(* As _setFieldValue, when the record put is built anew from the key and the *)
(* field written, the other payload field not carried over.                  *)
_setFieldValue_clearsOtherField(found, key, fieldName, fieldValue, mimeType, t) ==
    LET withField == IF fieldName = "text"
                     THEN [KeyOnlyRecord(key) EXCEPT !.text = fieldValue]
                     ELSE [KeyOnlyRecord(key) EXCEPT !.bytes = fieldValue]
    IN  [withField EXCEPT !.path = keyToPath(key),
                          !.appDataVersion = APP_DATA_VERSION,
                          !.mimeType = mimeType,
                          !.lastModified = t]

(* _setFieldValue, between its two awaits: the record it puts *)
_setFieldValue(found, key, fieldName, fieldValue, mimeType, t) ==
    LET record == IF found = Undefined THEN KeyOnlyRecord(key) ELSE found
        withField == IF fieldName = "text"
                     THEN [record EXCEPT !.text = fieldValue]
                     ELSE [record EXCEPT !.bytes = fieldValue]
    IN  [withField EXCEPT !.path = keyToPath(key),
                          !.appDataVersion = APP_DATA_VERSION,
                          !.mimeType = mimeType,
                          !.lastModified = t]

(* _changePathOfKey *)
_changePathOfKey(key, path, nextPath) == nextPath \o slice(key, Len(path))

(* As _recordMissing, when the check for a missing record is left out. *)
_recordMissing_never(record) == FALSE

(* _replaceRecordUsingNewKey: if (!record) throw *)
_recordMissing(record) == record = Undefined

(* As _replaceRecordUsingNewKey, without the assignment to record.path. *)
_replaceRecordUsingNewKey_keepsPath(record, nextKey, updateLastModified, t) ==
    [record EXCEPT !.key = nextKey,
                   !.lastModified = IF updateLastModified THEN t ELSE @]

(* _replaceRecordUsingNewKey, between its _get and its _put: the record it puts *)
_replaceRecordUsingNewKey(record, nextKey, updateLastModified, t) ==
    [record EXCEPT !.key = nextKey,
                   !.path = keyToPath(nextKey),
                   !.lastModified = IF updateLastModified THEN t ELSE @]

(* regExUtil.escapeRegexCharacters: in the pattern each character of the text *)
(* stands for itself and for nothing else                                     *)
escapeRegexCharacters(text) == [i \in 1..Len(text) |-> [literal |-> text[i]]]

(* new RegExp(`${currentPathEscaped}.*`, '').test(key): the pattern carries no ^, *)
(* so it matches at any offset of the key                                         *)
RegexTest(pattern, key) ==
    \E i \in 0..(Len(key) - Len(pattern)) :
        \A j \in 1..Len(pattern) : pattern[j].literal = key[i + j]

(* getAllKeysMatchingRegex on the regex _renamePath builds: descendentKeys *)
descendentKeys(st, currentPath) ==
    SelectSeq(SortedKeys(Keys(st)),
              LAMBDA key : RegexTest(escapeRegexCharacters(currentPath), key))

(* As IfModified, with >= for > in the comparison with `since`. *)
IfModified_orEqual(record, payload, since) ==
    IF record # Undefined /\ payload # NULL /\ record.lastModified >= since
    THEN payload ELSE NULL

(* getTextIfModified / getBytesIfModified: the returned expression *)
IfModified(record, payload, since) ==
    IF record # Undefined /\ payload # NULL /\ record.lastModified > since
    THEN payload ELSE NULL

----------------------------------------------------------------------------
(* Calls and transactions. *)

(* No call made yet.  `again`, `txFailed` and `overlap` are history: the call  *)
(* repeats the call resolved before it; a transaction the call created        *)
(* reported an error; the call was made while the other caller's was pending. *)
NoCall ==
    [op |-> "none", status |-> "idle", key |-> <<>>, nextKey |-> <<>>, keys |-> <<>>,
     fieldValue |-> NULL, since |-> 0, value |-> UNDEFINED, records |-> <<>>,
     error |-> "none", again |-> FALSE, txFailed |-> FALSE, overlap |-> FALSE]

NewCall(op) == [NoCall EXCEPT !.op = op, !.status = "pending"]

Resolved(c) == [c EXCEPT !.status = "resolved"]
Rejected(c, error) == [c EXCEPT !.status = "rejected", !.error = error]

(* A transaction on the KeyValue store with its request, and what awaits it:    *)
(* `cont` names the async function suspended on it, `awaited` is FALSE when no  *)
(* caller waits for it any more.  `by` names the caller whose call created it,  *)
(* `stale` is history: the call that created it is no longer the one in `call`. *)
Tx(kind, cont) ==
    [kind |-> kind, cont |-> cont, awaited |-> TRUE, key |-> <<>>, nextKey |-> <<>>,
     keys |-> <<>>, record |-> Undefined, updateLastModified |-> FALSE,
     by |-> "call", stale |-> FALSE]

ReadOnly(tx) ==
    tx.kind \in {"get", "getAllKeys", "indexGetAll", "indexGetAllKeys", "getMany"}

(* IndexedDb starts a readwrite transaction when every transaction created before *)
(* it has finished, and a readonly one when every readwrite one created before it *)
(* has finished.  All transactions of the store have the same scope.              *)
CanRun(i) ==
    IF ReadOnly(txs[i]) THEN \A j \in 1..(i - 1) : ReadOnly(txs[j]) ELSE i = 1

Without(i) == SubSeq(txs, 1, i - 1) \o SubSeq(txs, i + 1, Len(txs))

(* A rejection reaches the caller; what the call left running goes on unawaited. *)
Abandon(q) == [j \in 1..Len(q) |-> [q[j] EXCEPT !.awaited = FALSE]]

NoSet == [key |-> <<>>, field |-> "none", value |-> NULL, live |-> FALSE]

(* lastSet after the store changed under `key` *)
Touch(key) == IF lastSet.live /\ lastSet.key = key THEN NoSet ELSE lastSet

FieldOf(op) == IF op = "setText" THEN "text" ELSE "bytes"
MimeOf(op) == IF op = "setText" THEN MIMETYPE_PLAIN_TEXT ELSE MIMETYPE_OCTET_STREAM

----------------------------------------------------------------------------
(* pathUtil and mimeTypes: functions of their argument. *)

MaxUtilLen == 4     \* keys and filenames given to pathUtil have up to MaxUtilLen characters

(* The strings of up to n characters of an alphabet. *)
Strings(alphabet, n) == UNION {[1..m -> alphabet] : m \in 0..n}

(* As keyToName, cutting after the first "/" of the key. *)
keyToName_afterFirstSlash(key) ==
    LET at == {i \in 1..Len(key) : key[i] = Slash}
    IN  IF at = {} THEN key
        ELSE SubSeq(key, (CHOOSE i \in at : \A j \in at : i <= j) + 1, Len(key))

(* pathUtil.keyToName: the key after its last "/", the whole key without one. *)
keyToName(key) == SubSeq(key, LastSlash(key) + 1, Len(key))

Dot == "."

(* String.prototype.toLowerCase, on the letters the filenames are made of *)
toLowerCase(s) == [i \in 1..Len(s) |-> IF s[i] = "A" THEN "a" ELSE s[i]]

LastDot(filename) ==
    LET at == {i \in 1..Len(filename) : filename[i] = Dot}
    IN  IF at = {} THEN 0 ELSE CHOOSE i \in at : \A j \in at : j <= i

(* As splitFilenameAndExtension, cutting at the first "." of the filename. *)
splitFilenameAndExtension_atFirstDot(filename) ==
    LET at == {i \in 1..Len(filename) : filename[i] = Dot}
        first == IF at = {} THEN 0 ELSE CHOOSE i \in at : \A j \in at : i <= j
    IN  IF first = 0 THEN <<filename, <<>>>>
        ELSE <<SubSeq(filename, 1, first - 1),
               toLowerCase(SubSeq(filename, first + 1, Len(filename)))>>

(* pathUtil.splitFilenameAndExtension: [base, extension], cut at the last ".", *)
(* the extension in lower case; without a "." the extension is empty.          *)
splitFilenameAndExtension(filename) ==
    IF LastDot(filename) = 0 THEN <<filename, <<>>>>
    ELSE <<SubSeq(filename, 1, LastDot(filename) - 1),
           toLowerCase(SubSeq(filename, LastDot(filename) + 1, Len(filename)))>>

MIMETYPE_AUDIO_WAV == "audio/wav"
MIMETYPE_GIF == "image/gif"
MIMETYPE_JPEG == "image/jpeg"
MIMETYPE_SVG == "image/svg+xml"
MIMETYPE_PNG == "image/png"
MIMETYPE_ZIP == "application/zip"
MIMETYPE_JSON == "application/json"
MIMETYPE_XLS == "application/vnd.ms-excel"
MIMETYPE_XLSX == "application/vnd.openxmlformats-officedocument.spreadsheetml.sheet"
MIMETYPE_CSV == "text/csv"
MIMETYPE_TSV == "text/tsv"

MIMETYPE_TO_EXTENSION_MAP ==
    (MIMETYPE_AUDIO_WAV :> "wav") @@ (MIMETYPE_GIF :> "gif") @@ (MIMETYPE_JPEG :> "jpg")
    @@ (MIMETYPE_OCTET_STREAM :> "bin") @@ (MIMETYPE_PLAIN_TEXT :> "txt")
    @@ (MIMETYPE_PNG :> "png") @@ (MIMETYPE_JSON :> "json")

DEFAULT_EXTENSION == ""

(* What an object literal inherits from Object.prototype: a lookup of one of *)
(* these names finds a function, not undefined.                              *)
ObjectPrototypeNames == {"constructor", "toString"}
InheritedFunction == "[Function]"

(* As mimeTypeToExtension, when a type that is not in the table gets "bin". *)
mimeTypeToExtension_defaultsToBin(mimeType) ==
    IF mimeType \in DOMAIN MIMETYPE_TO_EXTENSION_MAP
    THEN MIMETYPE_TO_EXTENSION_MAP[mimeType]
    ELSE "bin"

(* mimeTypeToExtension: MIMETYPE_TO_EXTENSION_MAP[mimeType] ?? DEFAULT_EXTENSION *)
mimeTypeToExtension(mimeType) ==
    IF mimeType \in DOMAIN MIMETYPE_TO_EXTENSION_MAP
    THEN MIMETYPE_TO_EXTENSION_MAP[mimeType]
    ELSE IF mimeType \in ObjectPrototypeNames THEN InheritedFunction
    ELSE DEFAULT_EXTENSION

(* No function applied yet.  `applied` names the functions applied, `path`, *)
(* `name` and `split` are the results of the pathUtil functions applied to  *)
(* `arg`, `extension` the result of mimeTypeToExtension applied to          *)
(* `mimeType`.                                                              *)
NoUtil ==
    [applied |-> {}, arg |-> <<>>, path |-> <<>>, name |-> <<>>, split |-> <<<<>>, <<>>>>,
     mimeType |-> "", extension |-> ""]

----------------------------------------------------------------------------
(* llmUtil: the module's connection and the calls on it. *)

MaxInFlight == 2    \* connect calls waiting for their engine at one time

UNSPECIFIED_MODEL_ID == "UNSPECIFIED"

ModelIds == {"m1", "m2"}

(* The engine CreateMLCEngine makes for a model. *)
EngineOf(modelId) == IF modelId = "m1" THEN "engine:m1" ELSE "engine:m2"

theConnection ==
    [modelId |-> UNSPECIFIED_MODEL_ID, state |-> "UNINITIALIZED", webLLMEngine |-> NULL,
     serverUrl |-> NULL, connectionType |-> "NONE"]

(* No synchronous call made yet.  `before` and `after` are theConnection as  *)
(* the call found and left it, `connected` the modelId of the connect that   *)
(* had succeeded when it was made.                                           *)
NoLlmCall ==
    [op |-> "none", outcome |-> "none", value |-> NULL, connected |-> "none",
     before |-> theConnection, after |-> theConnection, moved |-> FALSE]

MaxChatLen == 2       \* messages are added to a chat history of up to MaxChatLen messages
MaxToolCallId == 2    \* tool messages added since the module was loaded

Prompts == {"p1", "p2"}
Responses == {"r1"}
ToolResults == {"t1"}
ChatHistorySizes == {1, 2}

(* An LLMMessage; tool_call_id is 0 for a message that has none. *)
LLMMessage(role, content, tool_call_id) ==
    [role |-> role, content |-> content, tool_call_id |-> tool_call_id]

(* The arrays chatHistory fields refer to: `messages` and a saved copy of it *)
(* name an array, and two objects may name the same one.                     *)
ArrayIds == {1, 2}

(* let messages = { chatHistory: [], maxChatHistorySize: 100, systemMessage: null } *)
messages == [chatHistory |-> 1, maxChatHistorySize |-> 100, systemMessage |-> NULL]

(* let savedMessages = null; `null` says so, the other fields are those of *)
(* the saved copy once there is one.                                       *)
savedMessages ==
    [null |-> TRUE, chatHistory |-> 1, maxChatHistorySize |-> 100, systemMessage |-> NULL]

SystemMessages == {NULL, "s1"}

(* promptCache: const cache = {} *)
cache == [prompt \in Prompts |-> NULL]

(* The module as loaded.  `loading` holds the modelId of each connect call   *)
(* that waits for CreateMLCEngine, `connected` the modelId of the connect    *)
(* that succeeded ("none" before), `failed` whether a connect has rejected.  *)
(* `messages` is the chat configuration, `arrays` the contents of the arrays *)
(* it names, `generating` the prompt of each generate call that waits for    *)
(* the engine, `toolCallId` the counter of messageUtil.  `snapshot` is the   *)
(* chat configuration, contents of chatHistory included, as it was at the    *)
(* last saveChatConfiguration.  `isInitialized` and `isInitializing` are the *)
(* flags of the load screen's initialization module.                         *)
LlmModule ==
    [theConnection |-> theConnection, loading |-> <<>>, connected |-> "none",
     failed |-> FALSE, last |-> NoLlmCall,
     messages |-> messages, arrays |-> [id \in ArrayIds |-> <<>>],
     cache |-> cache, generating |-> <<>>, toolCallId |-> 0,
     savedMessages |-> savedMessages,
     isInitialized |-> FALSE, isInitializing |-> FALSE,
     snapshot |-> [chatHistory |-> <<>>, maxChatHistorySize |-> 100,
                   systemMessage |-> NULL]]

isLlmConnected(connection) == connection.state \in {"READY", "GENERATING"}

(* theConnection after _clearConnectionAndThrow *)
_clearConnectionAndThrow(connection) ==
    [connection EXCEPT !.webLLMEngine = NULL, !.serverUrl = NULL,
                       !.connectionType = "NONE", !.state = "INIT_FAILED"]

----------------------------------------------------------------------------
(* Inputs. *)

KeyArgs == {S_a, S_b}
TextKeyArgs == {S_a, S_b, S_ab}
RenameKeyArgs == {<<S_a, S_b>>, <<S_b, S_a>>, <<S_a, S_a>>, <<S_a, S_ab>>}
RenamePathArgs == {<<S_aSl, S_bSl>>, <<S_aSl, S_aSl>>, <<S_b, S_a>>, <<S_a, S_ab>>}
IndexPathArgs == {S_empty, S_aSl}
TextArgs == {"hello", NULL}
BytesArgs == {"bytes1"}
KeyListArgs == {<<S_a>>, <<S_b, S_a>>, <<S_a, S_ab>>}

(* The database as earlier sessions of the app left it: records written by *)
(* setText under some release of the app, each with its own text.          *)
InitKeys == {S_a, S_ab}
InitText(key) == IF key = S_a THEN "doc1" ELSE "doc2"
InitRecord(key, version) ==
    KeyValueRecord(key, keyToPath(key), version, MIMETYPE_PLAIN_TEXT, 0, InitText(key),
                   UNDEFINED)
InitStores ==
    UNION {{{InitRecord(k, v[k]) : k \in ks} : v \in [ks -> 0..MaxVersion]} :
           ks \in SUBSET InitKeys}

Init ==
    /\ store \in InitStores
    /\ now = 0
    /\ txs = <<>>
    /\ call = NoCall
    /\ pre = {}
    /\ lastSet = NoSet
    /\ rival = NoCall
    /\ util = NoUtil
    /\ llm = LlmModule

(* Time passes. *)
Tick ==
    /\ now < MaxClock
    /\ now' = now + 1
    /\ UNCHANGED <<store, txs, call, pre, lastSet, rival, util, llm>>

(* The caller awaits each call before it makes the next one. *)
CanCall == call.status # "pending"

(* The operations whose re-application the store promises to be harmless. *)
IdempotentOps == {"deleteByKey", "deleteAllKeys", "renameKey", "renamePath"}

(* The call `c` is the call resolved last, made once more. *)
Repeats(c) ==
    /\ c.op \in IdempotentOps
    /\ call.status = "resolved"
    /\ c.op = call.op /\ c.key = call.key /\ c.nextKey = call.nextKey /\ c.keys = call.keys

(* The transactions earlier calls left behind. *)
Stale(q) == [j \in 1..Len(q) |-> [q[j] EXCEPT !.stale = TRUE]]

Start(c, q) ==
    /\ call' = [c EXCEPT !.again = Repeats(c), !.overlap = (rival.status = "pending")]
    /\ txs' = Stale(txs) \o q
    /\ pre' = store
    /\ UNCHANGED <<store, now, lastSet, rival, util, llm>>

(* getText, getBytes, getTextIfModified, getBytesIfModified, setText, setBytes: *)
(* each runs up to the _get of _getRecordByKey                                  *)
getText(key) ==
    /\ CanCall
    /\ Start([NewCall("getText") EXCEPT !.key = key],
          <<[Tx("get", "_getRecordByKey") EXCEPT !.key = key]>>)

getBytes(key) ==
    /\ CanCall
    /\ Start([NewCall("getBytes") EXCEPT !.key = key],
          <<[Tx("get", "_getRecordByKey") EXCEPT !.key = key]>>)

getTextIfModified(key, since) ==
    /\ CanCall
    /\ Start([NewCall("getTextIfModified") EXCEPT !.key = key, !.since = since],
          <<[Tx("get", "_getRecordByKey") EXCEPT !.key = key]>>)

getBytesIfModified(key, since) ==
    /\ CanCall
    /\ Start([NewCall("getBytesIfModified") EXCEPT !.key = key, !.since = since],
          <<[Tx("get", "_getRecordByKey") EXCEPT !.key = key]>>)

setText(key, text) ==
    /\ CanCall
    /\ Start([NewCall("setText") EXCEPT !.key = key, !.fieldValue = text],
          <<[Tx("get", "_getRecordByKey") EXCEPT !.key = key]>>)

setBytes(key, bytes) ==
    /\ CanCall
    /\ Start([NewCall("setBytes") EXCEPT !.key = key, !.fieldValue = bytes],
          <<[Tx("get", "_getRecordByKey") EXCEPT !.key = key]>>)

(* The keys a rename would build stay within MaxKeyLen. *)
RenameFits(keys, currentPath, nextPath) ==
    \A key \in keys :
        RegexTest(escapeRegexCharacters(currentPath), key)
            => Len(_changePathOfKey(key, currentPath, nextPath)) <= MaxKeyLen

(* renamePath runs up to the getAllKeys of getAllKeysMatchingRegex *)
renamePath(currentPath, nextPath) ==
    /\ CanCall
    /\ RenameFits(Keys(store), currentPath, nextPath)
    /\ Start([NewCall("renamePath") EXCEPT !.key = currentPath, !.nextKey = nextPath],
             <<[Tx("getAllKeys", "_renamePath") EXCEPT !.key = currentPath,
                                                       !.nextKey = nextPath]>>)

(* renameKey runs up to the _get of _replaceRecordUsingNewKey *)
renameKey(currentKey, nextKey) ==
    /\ CanCall
    /\ Len(nextKey) <= MaxKeyLen
    /\ RenameFits(Keys(store) \cup {nextKey}, currentKey \o <<Slash>>, nextKey \o <<Slash>>)
    /\ Start([NewCall("renameKey") EXCEPT !.key = currentKey, !.nextKey = nextKey],
             <<[Tx("get", "renameKey") EXCEPT !.key = currentKey, !.nextKey = nextKey,
                                              !.updateLastModified = TRUE]>>)

deleteByKey(key) ==
    /\ CanCall
    /\ Start([NewCall("deleteByKey") EXCEPT !.key = key],
          <<[Tx("delete", "deleteByKey") EXCEPT !.key = key]>>)

deleteAllKeys(keys) ==
    /\ CanCall
    /\ Start([NewCall("deleteAllKeys") EXCEPT !.keys = keys],
          <<[Tx("deleteMany", "deleteAllKeys") EXCEPT !.keys = keys]>>)

getAllValuesAtPath(path) ==
    /\ CanCall
    /\ Start([NewCall("getAllValuesAtPath") EXCEPT !.key = path],
          <<[Tx("indexGetAll", "getAllValuesAtPath") EXCEPT !.key = path]>>)

getValuesForKeys(keys) ==
    /\ CanCall
    /\ Start([NewCall("getValuesForKeys") EXCEPT !.keys = keys],
          <<[Tx("getMany", "getValuesForKeys") EXCEPT !.keys = keys]>>)

----------------------------------------------------------------------------
(* Completion handlers, each with the code that runs until the next await. *)

(* The rest of a read or write API function once _getRecordByKey returned `record`; *)
(* `q` is the transactions left.                                                    *)
AfterGetRecordByKey(record, q) ==
    CASE call.op = "getText" ->
            /\ call' = [Resolved(call) EXCEPT !.value = OrNull(record.text)]
            /\ txs' = q
      [] call.op = "getBytes" ->
            /\ call' = [Resolved(call) EXCEPT !.value = OrNull(record.bytes)]
            /\ txs' = q
      [] call.op = "getTextIfModified" ->
            /\ call' = [Resolved(call) EXCEPT
                          !.value = IfModified(record, record.text, call.since)]
            /\ txs' = q
      [] call.op = "getBytesIfModified" ->
            /\ call' = [Resolved(call) EXCEPT
                          !.value = IfModified(record, record.bytes, call.since)]
            /\ txs' = q
      [] OTHER ->
            /\ call' = call
            /\ txs' = q \o <<[Tx("put", "_setFieldValue") EXCEPT
                                !.key = call.key,
                                !.record = _setFieldValue(record, call.key, FieldOf(call.op),
                                                          call.fieldValue, MimeOf(call.op),
                                                          now)]>>

(* _get's transaction.oncomplete *)
GetComplete(i) ==
    /\ txs[i].kind = "get"
    /\ txs[i].by = "call"
    /\ CanRun(i)
    /\ LET tx == txs[i]
           record == _get(store, tx.key)
           rest == Without(i)
       IN  IF tx.cont = "_getRecordByKey"
           THEN LET outcome == _getRecordByKey(record)
                IN  CASE outcome = "return" -> AfterGetRecordByKey(record, rest)
                      [] outcome = "upgraded" ->
                            AfterGetRecordByKey(
                                _upgradeRecord(record),
                                rest \o <<[Tx("put", "_getRecordByKey") EXCEPT
                                             !.key = tx.key,
                                             !.record = _upgradeRecord(record),
                                             !.awaited = FALSE]>>)
                      [] OTHER ->
                            /\ call' = Rejected(call, outcome)
                            /\ txs' = rest
           ELSE IF _recordMissing(record)
                THEN IF tx.awaited
                     THEN /\ call' = Rejected(call, "NotFound")
                          /\ txs' = Abandon(rest)
                     ELSE /\ call' = call
                          /\ txs' = rest
                ELSE /\ call' = call
                     /\ txs' = rest \o
                            <<[tx EXCEPT !.kind = "put",
                                         !.record = _replaceRecordUsingNewKey(
                                                        record, tx.nextKey,
                                                        tx.updateLastModified, now)]>>
    /\ UNCHANGED <<store, now, pre, lastSet, rival, util, llm>>

(* _put's transaction.oncomplete *)
PutComplete(i) ==
    /\ txs[i].kind = "put"
    /\ txs[i].by = "call"
    /\ CanRun(i)
    /\ LET tx == txs[i]
           rest == Without(i)
       IN  /\ store' = _put(store, tx.record)
           /\ CASE tx.cont = "_setFieldValue" ->
                     /\ call' = Resolved(call)
                     /\ txs' = rest
                     /\ lastSet' = [key |-> tx.record.key, field |-> FieldOf(call.op),
                                    value |-> call.fieldValue, live |-> TRUE]
                [] tx.cont = "_getRecordByKey" ->
                     /\ call' = call
                     /\ txs' = rest
                     /\ lastSet' = Touch(tx.record.key)
                [] OTHER ->
                     /\ call' = call
                     /\ txs' = rest \o <<[tx EXCEPT !.kind = "delete"]>>
                     /\ lastSet' = Touch(tx.record.key)
    /\ UNCHANGED <<now, pre, rival, util, llm>>

(* _delete's transaction.oncomplete *)
DeleteComplete(i) ==
    /\ txs[i].kind = "delete"
    /\ txs[i].by = "call"
    /\ CanRun(i)
    /\ LET tx == txs[i]
           rest == Without(i)
       IN  /\ store' = _delete(store, tx.key)
           /\ lastSet' = Touch(tx.key)
           /\ CASE tx.cont = "deleteByKey" ->
                     /\ call' = Resolved(call)
                     /\ txs' = rest
                [] tx.cont = "renameKey" ->
                     /\ call' = call
                     /\ txs' = rest \o
                            <<[Tx("getAllKeys", "_renamePath") EXCEPT
                                 !.key = tx.key \o <<Slash>>,
                                 !.nextKey = tx.nextKey \o <<Slash>>]>>
                [] OTHER ->
                     /\ txs' = rest
                     /\ call' = IF /\ tx.awaited
                                   /\ \A j \in 1..Len(rest) :
                                         ~(rest[j].cont = "Promise.all" /\ rest[j].awaited)
                                THEN Resolved(call)
                                ELSE call
    /\ UNCHANGED <<now, pre, rival, util, llm>>

(* getAllKeysMatchingRegex's request.onsuccess, then the loop of _renamePath *)
GetAllKeysSuccess(i) ==
    /\ txs[i].kind = "getAllKeys"
    /\ txs[i].by = "call"
    /\ CanRun(i)
    /\ LET tx == txs[i]
           keys == descendentKeys(store, tx.key)
       IN  /\ txs' = Without(i) \o
                  [keyI \in 1..Len(keys) |->
                      [Tx("get", "Promise.all") EXCEPT
                         !.key = keys[keyI],
                         !.nextKey = _changePathOfKey(keys[keyI], tx.key, tx.nextKey)]]
           /\ call' = IF Len(keys) = 0 THEN Resolved(call) ELSE call
    /\ UNCHANGED <<store, now, pre, lastSet, rival, util, llm>>

Range(seq) == {seq[j] : j \in 1..Len(seq)}

(* deleteAllKeys' transaction.oncomplete *)
DeleteAllKeysComplete(i) ==
    /\ txs[i].kind = "deleteMany"
    /\ txs[i].by = "call"
    /\ CanRun(i)
    /\ store' = {r \in store : r.key \notin Range(txs[i].keys)}
    /\ lastSet' = IF lastSet.key \in Range(txs[i].keys) THEN NoSet ELSE lastSet
    /\ call' = Resolved(call)
    /\ txs' = Without(i)
    /\ UNCHANGED <<now, pre, rival, util, llm>>

(* getAllValuesAtPath's request.onsuccess *)
GetAllSuccess(i) ==
    /\ txs[i].kind = "indexGetAll"
    /\ txs[i].by = "call"
    /\ CanRun(i)
    /\ call' = [Resolved(call) EXCEPT !.records = IndexGetAll(store, txs[i].key)]
    /\ txs' = Without(i)
    /\ UNCHANGED <<store, now, pre, lastSet, rival, util, llm>>

(* As valuesForKeys, when only the keys that have a record give an entry. *)
valuesForKeys_found(st, keys) ==
    LET found == SelectSeq(keys, LAMBDA key : key \in Keys(st))
    IN  [j \in 1..Len(found) |-> _get(st, found[j])]

(* getValuesForKeys: keys.map(_key => _getValueByKey(_key)), each request.result *)
valuesForKeys(st, keys) == [j \in 1..Len(keys) |-> _get(st, keys[j])]

(* getValuesForKeys: every request.onsuccess of its one transaction, and Promise.all *)
GetValuesSuccess(i) ==
    /\ txs[i].kind = "getMany"
    /\ txs[i].by = "call"
    /\ CanRun(i)
    /\ call' = [Resolved(call) EXCEPT !.records = valuesForKeys(store, txs[i].keys)]
    /\ txs' = Without(i)
    /\ UNCHANGED <<store, now, pre, lastSet, rival, util, llm>>

----------------------------------------------------------------------------

Next ==
    \/ Tick
    \/ \E key \in KeyArgs : getText(key)
    \/ \E key \in KeyArgs : getBytes(key)
    \/ \E key \in KeyArgs, since \in 0..MaxClock : getTextIfModified(key, since)
    \/ \E key \in KeyArgs, since \in 0..MaxClock : getBytesIfModified(key, since)
    \/ \E key \in TextKeyArgs, text \in TextArgs : setText(key, text)
    \/ \E key \in KeyArgs, bytes \in BytesArgs : setBytes(key, bytes)
    \/ \E args \in RenamePathArgs : renamePath(args[1], args[2])
    \/ \E args \in RenameKeyArgs : renameKey(args[1], args[2])
    \/ \E key \in KeyArgs : deleteByKey(key)
    \/ \E keys \in KeyListArgs : deleteAllKeys(keys)
    \/ \E path \in IndexPathArgs : getAllValuesAtPath(path)
    \/ \E keys \in KeyListArgs : getValuesForKeys(keys)
    \/ \E i \in 1..Len(txs) : GetComplete(i)
    \/ \E i \in 1..Len(txs) : PutComplete(i)
    \/ \E i \in 1..Len(txs) : DeleteComplete(i)
    \/ \E i \in 1..Len(txs) : GetAllKeysSuccess(i)
    \/ \E i \in 1..Len(txs) : DeleteAllKeysComplete(i)
    \/ \E i \in 1..Len(txs) : GetAllSuccess(i)
    \/ \E i \in 1..Len(txs) : GetValuesSuccess(i)

Spec == Init /\ [][Next]_vars

----------------------------------------------------------------------------
(* pathUtil and mimeTypes applied to arguments. *)

KeyInputs == Strings({"a", "b", Slash}, MaxUtilLen)
FilenameInputs == Strings({"a", "A", Dot}, MaxUtilLen)
MimeTypeArgs ==
    {MIMETYPE_AUDIO_WAV, MIMETYPE_GIF, MIMETYPE_JPEG, MIMETYPE_OCTET_STREAM,
     MIMETYPE_PLAIN_TEXT, MIMETYPE_SVG, MIMETYPE_PNG, MIMETYPE_ZIP, MIMETYPE_JSON,
     MIMETYPE_XLS, MIMETYPE_XLSX, MIMETYPE_CSV, MIMETYPE_TSV,
     "application/pdf", "unknown/mime"}

(* The results kept when `arg` is the argument of the call before, none otherwise. *)
UtilOn(arg) == IF util.arg = arg THEN util ELSE [NoUtil EXCEPT !.arg = arg]

CallKeyToPath(key) ==
    /\ util' = [UtilOn(key) EXCEPT !.applied = @ \cup {"keyToPath"},
                                  !.path = keyToPath(key)]
    /\ UNCHANGED <<storeVars, llm>>

CallKeyToName(key) ==
    /\ util' = [UtilOn(key) EXCEPT !.applied = @ \cup {"keyToName"},
                                  !.name = keyToName(key)]
    /\ UNCHANGED <<storeVars, llm>>

CallSplitFilenameAndExtension(filename) ==
    /\ util' = [UtilOn(filename) EXCEPT !.applied = @ \cup {"splitFilenameAndExtension"},
                                       !.split = splitFilenameAndExtension(filename)]
    /\ UNCHANGED <<storeVars, llm>>

CallMimeTypeToExtension(mimeType) ==
    /\ util' = [NoUtil EXCEPT !.applied = {"mimeTypeToExtension"},
                              !.mimeType = mimeType,
                              !.extension = mimeTypeToExtension(mimeType)]
    /\ UNCHANGED <<storeVars, llm>>

InitUtil == Init /\ store = {}

NextUtil ==
    \/ \E key \in KeyInputs : CallKeyToPath(key)
    \/ \E key \in KeyInputs : CallKeyToName(key)
    \/ \E filename \in FilenameInputs : CallSplitFilenameAndExtension(filename)
    \/ \E mimeType \in MimeTypeArgs \cup ObjectPrototypeNames :
           CallMimeTypeToExtension(mimeType)

SpecUtil == InitUtil /\ [][NextUtil]_vars

----------------------------------------------------------------------------
(* llmUtil: connect and getConnectionModelId. *)

(* connect up to its await: nothing when connected, else INITIALIZING with   *)
(* the modelId, and webLlmConnect up to its await of CreateMLCEngine.        *)
connect(modelId) ==
    /\ Len(llm.loading) < MaxInFlight
    /\ llm' = IF isLlmConnected(llm.theConnection)
              THEN [llm EXCEPT !.last = [NoLlmCall EXCEPT !.op = "connect",
                                                          !.outcome = "returned"]]
              ELSE [llm EXCEPT !.theConnection.state = "INITIALIZING",
                               !.theConnection.modelId = modelId,
                               !.theConnection.connectionType = "WEBLLM",
                               !.loading = Append(@, modelId),
                               !.last = NoLlmCall]
    /\ UNCHANGED <<storeVars, util>>

(* CreateMLCEngine resolves for the i-th waiting connect: the engine is kept *)
(* and connect goes on to READY.                                             *)
CreateEngineResolves(i) ==
    /\ i \in 1..Len(llm.loading)
    /\ llm' = [llm EXCEPT !.theConnection.webLLMEngine = EngineOf(llm.loading[i]),
                          !.theConnection.state = "READY",
                          !.loading = SubSeq(@, 1, i - 1) \o SubSeq(@, i + 1, Len(@)),
                          !.connected = llm.loading[i],
                          !.last = NoLlmCall]
    /\ UNCHANGED <<storeVars, util>>

(* CreateMLCEngine rejects for the i-th waiting connect: webLlmConnect       *)
(* returns false and connect rejects through _clearConnectionAndThrow.       *)
CreateEngineRejects(i) ==
    /\ i \in 1..Len(llm.loading)
    /\ llm' = [llm EXCEPT !.theConnection = _clearConnectionAndThrow(@),
                          !.loading = SubSeq(@, 1, i - 1) \o SubSeq(@, i + 1, Len(@)),
                          !.failed = TRUE,
                          !.last = NoLlmCall]
    /\ UNCHANGED <<storeVars, util>>

(* getConnectionModelId: its condition is the assignment                     *)
(* theConnection.modelId = UNSPECIFIED_MODEL_ID, whose value is a non-empty  *)
(* string, so the call stores that id and throws.                            *)
getConnectionModelId ==
    /\ llm' = [llm EXCEPT !.theConnection.modelId = UNSPECIFIED_MODEL_ID,
                          !.last = [op |-> "getConnectionModelId",
                                    outcome |-> "threw",
                                    value |-> NULL,
                                    connected |-> llm.connected,
                                    before |-> llm.theConnection,
                                    after |-> [llm.theConnection EXCEPT
                                                 !.modelId = UNSPECIFIED_MODEL_ID]]]
    /\ UNCHANGED <<storeVars, util>>

InitLlm == Init /\ store = {}

NextLlm ==
    \/ \E modelId \in ModelIds : connect(modelId)
    \/ \E i \in 1..MaxInFlight : CreateEngineResolves(i)
    \/ \E i \in 1..MaxInFlight : CreateEngineRejects(i)
    \/ getConnectionModelId

SpecLlm == InitLlm /\ [][NextLlm]_vars

----------------------------------------------------------------------------
(* llmUtil and messageUtil: generate and the chat history. *)

(* add...MessageToChatHistory: chatHistory.push(message), then one           *)
(* chatHistory.shift() if the length is above maxChatHistorySize             *)
addToChatHistory(chatHistory, message, maxChatHistorySize) ==
    LET pushed == Append(chatHistory, message)
    IN  IF Len(pushed) > maxChatHistorySize THEN Tail(pushed) ELSE pushed

(* The array `messages` names. *)
chatHistory(l) == l.arrays[l.messages.chatHistory]

(* The module after add...MessageToChatHistory(messages, ...) *)
Added(l, message) ==
    [l EXCEPT !.arrays[l.messages.chatHistory] =
                  addToChatHistory(@, message, l.messages.maxChatHistorySize)]

CanAdd == Len(chatHistory(llm)) <= MaxChatLen

addUserMessageToChatHistory(prompt) ==
    /\ CanAdd
    /\ llm' = [Added(llm, LLMMessage("user", prompt, 0)) EXCEPT
                  !.last = [NoLlmCall EXCEPT !.op = "addUserMessageToChatHistory"]]
    /\ UNCHANGED <<storeVars, util>>

addAssistantMessageToChatHistory(message) ==
    /\ CanAdd
    /\ llm' = [Added(llm, LLMMessage("assistant", message, 0)) EXCEPT
                  !.last = [NoLlmCall EXCEPT !.op = "addAssistantMessageToChatHistory"]]
    /\ UNCHANGED <<storeVars, util>>

addToolMessageToChatHistory(message) ==
    /\ CanAdd
    /\ llm.toolCallId < MaxToolCallId
    /\ llm' = [Added(llm, LLMMessage("tool", message, llm.toolCallId + 1)) EXCEPT
                  !.toolCallId = @ + 1,
                  !.last = [NoLlmCall EXCEPT !.op = "addToolMessageToChatHistory"]]
    /\ UNCHANGED <<storeVars, util>>

setSystemMessage(message) ==
    /\ llm' = [llm EXCEPT !.messages.systemMessage = message,
                          !.last = [NoLlmCall EXCEPT !.op = "setSystemMessage"]]
    /\ UNCHANGED <<storeVars, util>>

setChatHistorySize(size) ==
    /\ llm' = [llm EXCEPT !.messages.maxChatHistorySize = size,
                          !.last = [NoLlmCall EXCEPT !.op = "setChatHistorySize"]]
    /\ UNCHANGED <<storeVars, util>>

(* What generate does up to its first await, or up to its return or throw. *)
(* A throw after the state was set happens inside the async function: the  *)
(* call rejects.                                                           *)
generate(prompt) ==
    /\ Len(llm.generating) < MaxInFlight
    /\ CanAdd
    /\ LET connection == llm.theConnection
           call0 == [NoLlmCall EXCEPT !.op = "generate", !.before = connection,
                                      !.after = connection]
           set == [connection EXCEPT !.state = "GENERATING"]
           failed == [call0 EXCEPT !.outcome = "rejected", !.after = set, !.moved = TRUE]
       IN  llm' =
             IF llm.cache[prompt] # NULL
             THEN [llm EXCEPT !.last = [call0 EXCEPT !.outcome = "resolved",
                                                     !.value = llm.cache[prompt]]]
             ELSE IF ~isLlmConnected(connection)
             THEN [llm EXCEPT !.last = [call0 EXCEPT !.outcome = "rejected",
                                                     !.value = "NotInitialized"]]
             ELSE IF connection.state # "READY"
             THEN [llm EXCEPT !.last = [call0 EXCEPT !.outcome = "rejected",
                                                     !.value = "NotReady"]]
             ELSE IF connection.connectionType # "WEBLLM" \/ connection.webLLMEngine = NULL
             THEN [llm EXCEPT !.theConnection = set,
                              !.last = [failed EXCEPT !.value = "Unexpected"]]
             ELSE [Added(llm, LLMMessage("user", prompt, 0)) EXCEPT
                      !.theConnection = set,
                      !.generating = Append(@, prompt),
                      !.last = NoLlmCall]
    /\ UNCHANGED <<storeVars, util>>

(* The engine answers the i-th waiting generate: webLlmGenerate adds the    *)
(* assistant message and returns, generate caches the response and sets the *)
(* state to READY.                                                          *)
ChatCompletes(i, response) ==
    /\ i \in 1..Len(llm.generating)
    /\ LET added == Added(llm, LLMMessage("assistant", response, 0))
           ready == [llm.theConnection EXCEPT !.state = "READY"]
       IN  llm' = [added EXCEPT
                     !.theConnection = ready,
                     !.cache[llm.generating[i]] = response,
                     !.generating = SubSeq(@, 1, i - 1) \o SubSeq(@, i + 1, Len(@)),
                     !.last = [NoLlmCall EXCEPT !.op = "generate", !.outcome = "resolved",
                                                !.value = response, !.moved = TRUE,
                                                !.before = llm.theConnection,
                                                !.after = ready]]
    /\ UNCHANGED <<storeVars, util>>

(* The engine fails the i-th waiting generate: engine.chat.completions.create, *)
(* the stream or engine.getMessage rejects, nothing catches it in             *)
(* webLlmGenerate or in generate, and generate rejects where it stands.       *)
ChatFails(i) ==
    /\ i \in 1..Len(llm.generating)
    /\ llm' = [llm EXCEPT
                  !.generating = SubSeq(@, 1, i - 1) \o SubSeq(@, i + 1, Len(@)),
                  !.last = [NoLlmCall EXCEPT !.op = "generate", !.outcome = "rejected",
                                             !.value = "EngineFailed", !.moved = TRUE,
                                             !.before = llm.theConnection,
                                             !.after = llm.theConnection]]
    /\ UNCHANGED <<storeVars, util>>

(* The array a new [] is: the one `messages` names when savedMessages does *)
(* not name it too (nothing refers to the old array any more), else the    *)
(* other one.                                                              *)
NewArray(l) ==
    IF ~l.savedMessages.null /\ l.savedMessages.chatHistory = l.messages.chatHistory
    THEN CHOOSE id \in ArrayIds : id # l.messages.chatHistory
    ELSE l.messages.chatHistory

(* clearChatHistory: messages.chatHistory = [] *)
clearChatHistory ==
    /\ llm' = [llm EXCEPT !.messages.chatHistory = NewArray(llm),
                          !.arrays[NewArray(llm)] = <<>>,
                          !.last = [NoLlmCall EXCEPT !.op = "clearChatHistory"]]
    /\ UNCHANGED <<storeVars, util>>

(* The chat configuration with the contents of its chatHistory. *)
ChatConfiguration(l) ==
    [chatHistory |-> chatHistory(l),
     maxChatHistorySize |-> l.messages.maxChatHistorySize,
     systemMessage |-> l.messages.systemMessage]

(* saveChatConfiguration: savedMessages = {...messages}.  The spread copies *)
(* the fields: the copy names the chatHistory array that `messages` names. *)
saveChatConfiguration ==
    /\ llm' = [llm EXCEPT
                  !.savedMessages =
                      [null |-> FALSE,
                       chatHistory |-> llm.messages.chatHistory,
                       maxChatHistorySize |-> llm.messages.maxChatHistorySize,
                       systemMessage |-> llm.messages.systemMessage],
                  !.snapshot = ChatConfiguration(llm),
                  !.last = [NoLlmCall EXCEPT !.op = "saveChatConfiguration"]]
    /\ UNCHANGED <<storeVars, util>>

(* restoreChatConfiguration: throws without savedMessages, else *)
(* messages = {...savedMessages}                                *)
restoreChatConfiguration ==
    /\ llm' = IF llm.savedMessages.null
              THEN [llm EXCEPT !.last = [NoLlmCall EXCEPT
                                           !.op = "restoreChatConfiguration",
                                           !.outcome = "threw"]]
              ELSE [llm EXCEPT
                      !.messages =
                          [chatHistory |-> llm.savedMessages.chatHistory,
                           maxChatHistorySize |-> llm.savedMessages.maxChatHistorySize,
                           systemMessage |-> llm.savedMessages.systemMessage],
                      !.last = [NoLlmCall EXCEPT !.op = "restoreChatConfiguration",
                                                 !.outcome = "returned"]]
    /\ UNCHANGED <<storeVars, util>>

(* connect and generate, the engine answering or failing. *)
NextGen ==
    \/ \E modelId \in ModelIds : connect(modelId)
    \/ \E i \in 1..MaxInFlight : CreateEngineResolves(i)
    \/ \E i \in 1..MaxInFlight : CreateEngineRejects(i)
    \/ \E prompt \in Prompts : generate(prompt)
    \/ \E i \in 1..MaxInFlight, response \in Responses : ChatCompletes(i, response)
    \/ \E i \in 1..MaxInFlight : ChatFails(i)

SpecGen == InitLlm /\ [][NextGen]_vars

(* The chat history: the calls that add to it, resize it and clear it, and *)
(* generate on a connection whose engine answers.                          *)
NextChat ==
    \/ connect("m1")
    \/ CreateEngineResolves(1)
    \/ \E prompt \in Prompts : generate(prompt)
    \/ \E response \in Responses : ChatCompletes(1, response)
    \/ addUserMessageToChatHistory("p1")
    \/ \E message \in Responses : addAssistantMessageToChatHistory(message)
    \/ \E message \in ToolResults : addToolMessageToChatHistory(message)
    \/ \E size \in ChatHistorySizes : setChatHistorySize(size)
    \/ clearChatHistory

SpecChat == InitLlm /\ [][NextChat]_vars

(* The chat configuration saved and restored, and changed in between. *)
NextSave ==
    \/ saveChatConfiguration
    \/ restoreChatConfiguration
    \/ addUserMessageToChatHistory("p1")
    \/ \E message \in SystemMessages : setSystemMessage(message)
    \/ setChatHistorySize(1)
    \/ clearChatHistory

SpecSave == InitLlm /\ [][NextSave]_vars

----------------------------------------------------------------------------
(* loadScreen/interactions/initialization: startLoadingModel. *)

(* As LoadBusy, looking at isInitialized alone. *)
LoadBusy_onlyInitialized(l) == l.isInitialized

(* startLoadingModel: if (isInitialized || isInitializing) return false *)
LoadBusy(l) == l.isInitialized \/ l.isInitializing

(* startLoadingModel up to its await of connect, or to its return of false. *)
(* connect runs up to its own await; if the connection is there already it  *)
(* returns and startLoadingModel goes on to return true.                    *)
startLoadingModel(modelId) ==
    /\ Len(llm.loading) < MaxInFlight
    /\ LET called == [NoLlmCall EXCEPT !.op = "startLoadingModel"]
       IN  llm' =
             IF LoadBusy(llm)
             THEN [llm EXCEPT !.last = [called EXCEPT !.outcome = "returned",
                                                      !.value = "false"]]
             ELSE IF isLlmConnected(llm.theConnection)
             THEN [llm EXCEPT !.isInitialized = TRUE,
                              !.isInitializing = FALSE,
                              !.last = [called EXCEPT !.outcome = "resolved",
                                                      !.value = "true"]]
             ELSE [llm EXCEPT !.isInitializing = TRUE,
                              !.theConnection.state = "INITIALIZING",
                              !.theConnection.modelId = modelId,
                              !.theConnection.connectionType = "WEBLLM",
                              !.loading = Append(@, modelId),
                              !.last = [called EXCEPT !.outcome = "awaiting"]]
    /\ UNCHANGED <<storeVars, util>>

(* CreateMLCEngine resolves for the i-th waiting connect: connect goes on to *)
(* READY and resolves, startLoadingModel sets isInitialized, returns true    *)
(* and clears isInitializing in its finally.                                 *)
LoadConnectResolves(i) ==
    /\ i \in 1..Len(llm.loading)
    /\ llm' = [llm EXCEPT !.theConnection.webLLMEngine = EngineOf(llm.loading[i]),
                          !.theConnection.state = "READY",
                          !.loading = SubSeq(@, 1, i - 1) \o SubSeq(@, i + 1, Len(@)),
                          !.connected = llm.loading[i],
                          !.isInitialized = TRUE,
                          !.isInitializing = FALSE,
                          !.last = [NoLlmCall EXCEPT !.op = "startLoadingModel",
                                                     !.outcome = "resolved",
                                                     !.value = "true"]]
    /\ UNCHANGED <<storeVars, util>>

(* CreateMLCEngine rejects for the i-th waiting connect: connect rejects,   *)
(* startLoadingModel catches, returns false and clears isInitializing in    *)
(* its finally.                                                             *)
LoadConnectRejects(i) ==
    /\ i \in 1..Len(llm.loading)
    /\ llm' = [llm EXCEPT !.theConnection = _clearConnectionAndThrow(@),
                          !.loading = SubSeq(@, 1, i - 1) \o SubSeq(@, i + 1, Len(@)),
                          !.failed = TRUE,
                          !.isInitializing = FALSE,
                          !.last = [NoLlmCall EXCEPT !.op = "startLoadingModel",
                                                     !.outcome = "resolved",
                                                     !.value = "false"]]
    /\ UNCHANGED <<storeVars, util>>

(* The load screen loading the model, and the prompts of the home screen. *)
NextLoad ==
    \/ \E modelId \in ModelIds : startLoadingModel(modelId)
    \/ \E i \in 1..MaxInFlight : LoadConnectResolves(i)
    \/ \E i \in 1..MaxInFlight : LoadConnectRejects(i)
    \/ \E prompt \in Prompts : generate(prompt)
    \/ \E i \in 1..MaxInFlight, response \in Responses : ChatCompletes(i, response)
    \/ \E i \in 1..MaxInFlight : ChatFails(i)

SpecLoad == InitLlm /\ [][NextLoad]_vars

----------------------------------------------------------------------------
(* The operations on one path: the path index and the bulk deletes. *)

(* pathIndex.getAllKeys(path): the keys of the records whose path field is the *)
(* argument, in key order                                                      *)
IndexGetAllKeys(st, path) == SortedKeys({r.key : r \in {x \in st : x.path = path}})

(* As keysToDelete, when the exception list is not looked at. *)
keysToDelete_all(keys, exceptKeys) == keys

(* deleteAllKeysAtPathExcept: keys.filter(key => !exceptKeys.includes(key)) *)
keysToDelete(keys, exceptKeys) ==
    SelectSeq(keys, LAMBDA key : key \notin Range(exceptKeys))

getAllKeysAtPath(path) ==
    /\ CanCall
    /\ Start([NewCall("getAllKeysAtPath") EXCEPT !.key = path],
             <<[Tx("indexGetAllKeys", "getAllKeysAtPath") EXCEPT !.key = path]>>)

(* deleteAllKeysAtPath runs up to the request of getAllKeysAtPath *)
deleteAllKeysAtPath(path) ==
    /\ CanCall
    /\ Start([NewCall("deleteAllKeysAtPath") EXCEPT !.key = path],
             <<[Tx("indexGetAllKeys", "deleteAllKeysAtPath") EXCEPT !.key = path]>>)

(* deleteAllKeysAtPathExcept runs up to the request of getAllKeysAtPath *)
deleteAllKeysAtPathExcept(path, exceptKeys) ==
    /\ CanCall
    /\ Start([NewCall("deleteAllKeysAtPathExcept") EXCEPT !.key = path, !.keys = exceptKeys],
             <<[Tx("indexGetAllKeys", "deleteAllKeysAtPath") EXCEPT
                  !.key = path, !.keys = exceptKeys]>>)

(* getAllKeysAtPath's request.onsuccess, then the rest of the bulk delete that  *)
(* awaited it: nothing to delete returns, otherwise deleteAllKeys is called     *)
GetAllKeysAtPathSuccess(i) ==
    /\ txs[i].kind = "indexGetAllKeys"
    /\ txs[i].by = "call"
    /\ CanRun(i)
    /\ LET tx == txs[i]
           keys == IndexGetAllKeys(store, tx.key)
           doomed == IF call.op = "deleteAllKeysAtPathExcept"
                     THEN keysToDelete(keys, tx.keys)
                     ELSE keys
       IN  IF tx.cont = "getAllKeysAtPath"
           THEN /\ call' = [Resolved(call) EXCEPT !.value = keys]
                /\ txs' = Without(i)
           ELSE IF Len(doomed) = 0
                THEN /\ call' = Resolved(call)
                     /\ txs' = Without(i)
                ELSE /\ call' = call
                     /\ txs' = Without(i) \o
                            <<[Tx("deleteMany", "deleteAllKeys") EXCEPT !.keys = doomed]>>
    /\ UNCHANGED <<store, now, pre, lastSet, rival, util, llm>>

(* A database with two records in the root path and one in the path "a/". *)
PathInitKeys == {S_a, S_b, S_ab}
PathInitStores ==
    InitStores \cup {{InitRecord(k, APP_DATA_VERSION) : k \in ks} : ks \in SUBSET PathInitKeys}

InitPath ==
    /\ store \in PathInitStores
    /\ now = 0
    /\ txs = <<>>
    /\ call = NoCall
    /\ pre = {}
    /\ lastSet = NoSet
    /\ rival = NoCall
    /\ util = NoUtil
    /\ llm = LlmModule

ExceptKeyArgs == {<<S_a>>, <<S_ab, S_b>>}

NextPath ==
    \/ \E key \in {S_a, S_ab}, bytes \in BytesArgs : setBytes(key, bytes)
    \/ \E path \in IndexPathArgs : getAllKeysAtPath(path)
    \/ \E path \in IndexPathArgs : getAllValuesAtPath(path)
    \/ \E path \in IndexPathArgs : deleteAllKeysAtPath(path)
    \/ \E path \in IndexPathArgs, exceptKeys \in ExceptKeyArgs :
           deleteAllKeysAtPathExcept(path, exceptKeys)
    \/ \E i \in 1..Len(txs) : GetComplete(i)
    \/ \E i \in 1..Len(txs) : PutComplete(i)
    \/ \E i \in 1..Len(txs) : GetAllSuccess(i)
    \/ \E i \in 1..Len(txs) : GetAllKeysAtPathSuccess(i)
    \/ \E i \in 1..Len(txs) : DeleteAllKeysComplete(i)

SpecPath == InitPath /\ [][NextPath]_vars

----------------------------------------------------------------------------
(* The store with two callers: setText called by a second caller, whose call *)
(* is not ordered with the first caller's.                                   *)

(* setText runs up to the _get of _getRecordByKey *)
rivalSetText(key, text) ==
    /\ rival.status # "pending"
    /\ rival' = [NewCall("setText") EXCEPT !.key = key, !.fieldValue = text,
                                           !.overlap = (call.status = "pending")]
    /\ txs' = txs \o <<[Tx("get", "_getRecordByKey") EXCEPT !.key = key, !.by = "rival"]>>
    /\ UNCHANGED <<store, now, call, pre, lastSet, util, llm>>

(* _get's transaction.oncomplete, then _getRecordByKey and _setFieldValue up to *)
(* its _put                                                                     *)
RivalGetComplete(i) ==
    /\ txs[i].kind = "get"
    /\ txs[i].by = "rival"
    /\ CanRun(i)
    /\ LET tx == txs[i]
           record == _get(store, tx.key)
           rest == Without(i)
           outcome == _getRecordByKey(record)
           put(found) ==
               [Tx("put", "_setFieldValue") EXCEPT
                  !.key = rival.key,
                  !.by = "rival",
                  !.record = _setFieldValue(found, rival.key, FieldOf(rival.op),
                                            rival.fieldValue, MimeOf(rival.op), now)]
       IN  CASE outcome = "return" ->
                  /\ rival' = rival
                  /\ txs' = rest \o <<put(record)>>
             [] outcome = "upgraded" ->
                  /\ rival' = rival
                  /\ txs' = rest \o
                         <<[Tx("put", "_getRecordByKey") EXCEPT
                              !.key = tx.key,
                              !.by = "rival",
                              !.record = _upgradeRecord(record),
                              !.awaited = FALSE],
                           put(_upgradeRecord(record))>>
             [] OTHER ->
                  /\ rival' = Rejected(rival, outcome)
                  /\ txs' = rest
    /\ UNCHANGED <<store, now, call, pre, lastSet, util, llm>>

(* _put's transaction.oncomplete *)
RivalPutComplete(i) ==
    /\ txs[i].kind = "put"
    /\ txs[i].by = "rival"
    /\ CanRun(i)
    /\ store' = _put(store, txs[i].record)
    /\ txs' = Without(i)
    /\ IF txs[i].cont = "_setFieldValue"
       THEN /\ rival' = Resolved(rival)
            /\ lastSet' = [key |-> txs[i].record.key, field |-> FieldOf(rival.op),
                           value |-> rival.fieldValue, live |-> TRUE]
       ELSE /\ rival' = rival
            /\ lastSet' = Touch(txs[i].record.key)
    /\ UNCHANGED <<now, call, pre, util, llm>>

RivalTextArgs == {"world"}

NextRace ==
    \/ Tick
    \/ \E key \in KeyArgs, text \in TextArgs : setText(key, text)
    \/ \E key \in KeyArgs, text \in RivalTextArgs : rivalSetText(key, text)
    \/ \E i \in 1..Len(txs) : GetComplete(i)
    \/ \E i \in 1..Len(txs) : PutComplete(i)
    \/ \E i \in 1..Len(txs) : RivalGetComplete(i)
    \/ \E i \in 1..Len(txs) : RivalPutComplete(i)

SpecRace == Init /\ [][NextRace]_vars

----------------------------------------------------------------------------
(* The store when database transactions may fail. *)

(* transaction.onerror, or request.onerror where the code listens on the request: *)
(* the transaction reports an error and writes nothing.  The promise made for it  *)
(* rejects, which reaches the caller of the API function when the transaction is  *)
(* awaited.                                                                       *)
TxError(i) ==
    /\ txs[i].by = "call"
    /\ CanRun(i)
    /\ LET tx == txs[i]
           failed == IF tx.stale THEN call ELSE [call EXCEPT !.txFailed = TRUE]
       IN  IF tx.awaited
           THEN /\ call' = Rejected(failed, "TransactionError")
                /\ txs' = Abandon(Without(i))
           ELSE /\ call' = failed
                /\ txs' = Without(i)
    /\ UNCHANGED <<store, now, pre, lastSet, rival, util, llm>>

(* One call of each shape: a read, a write, the renames, the deletes, the lists. *)
NextErr ==
    \/ Tick
    \/ getText(S_a)
    \/ \E key \in TextKeyArgs : setText(key, "hello")
    \/ renamePath(S_aSl, S_bSl)
    \/ renameKey(S_a, S_b)
    \/ deleteByKey(S_a)
    \/ deleteAllKeys(<<S_a, S_ab>>)
    \/ getAllValuesAtPath(S_empty)
    \/ getValuesForKeys(<<S_b, S_a>>)
    \/ \E i \in 1..Len(txs) : GetComplete(i)
    \/ \E i \in 1..Len(txs) : PutComplete(i)
    \/ \E i \in 1..Len(txs) : DeleteComplete(i)
    \/ \E i \in 1..Len(txs) : GetAllKeysSuccess(i)
    \/ \E i \in 1..Len(txs) : DeleteAllKeysComplete(i)
    \/ \E i \in 1..Len(txs) : GetAllSuccess(i)
    \/ \E i \in 1..Len(txs) : GetValuesSuccess(i)
    \/ \E i \in 1..Len(txs) : TxError(i)

SpecErr == Init /\ [][NextErr]_vars

----------------------------------------------------------------------------
(* Every transaction is ended by the database: complete, error or abort. *)

(* A transaction of _get, _put, _delete or deleteAllKeys ends with abort     *)
(* after its requests have succeeded (the commit fails, the connection is    *)
(* closed): it writes nothing, and neither transaction.onerror nor           *)
(* transaction.oncomplete, the two handlers these functions set, is called.  *)
(* The promise made for it is left as it is.                                 *)
TxAbort(i) ==
    /\ txs[i].by = "call"
    /\ txs[i].kind \in {"get", "put", "delete", "deleteMany"}
    /\ CanRun(i)
    /\ txs' = Without(i)
    /\ UNCHANGED <<store, now, call, pre, lastSet, rival, util, llm>>

(* The database ends one of the transactions it was given. *)
TxOutcome ==
    \E i \in 1..Len(txs) :
        \/ GetComplete(i)
        \/ PutComplete(i)
        \/ DeleteComplete(i)
        \/ GetAllKeysSuccess(i)
        \/ DeleteAllKeysComplete(i)
        \/ GetAllSuccess(i)
        \/ GetValuesSuccess(i)
        \/ TxError(i)
        \/ TxAbort(i)

NextLive ==
    \/ getText(S_a)
    \/ setText(S_a, "hello")
    \/ renamePath(S_aSl, S_bSl)
    \/ renameKey(S_a, S_b)
    \/ deleteByKey(S_a)
    \/ deleteAllKeys(<<S_a, S_ab>>)
    \/ getAllValuesAtPath(S_empty)
    \/ getValuesForKeys(<<S_b, S_a>>)
    \/ \E i \in 1..Len(txs) : GetComplete(i)
    \/ \E i \in 1..Len(txs) : PutComplete(i)
    \/ \E i \in 1..Len(txs) : DeleteComplete(i)
    \/ \E i \in 1..Len(txs) : GetAllKeysSuccess(i)
    \/ \E i \in 1..Len(txs) : DeleteAllKeysComplete(i)
    \/ \E i \in 1..Len(txs) : GetAllSuccess(i)
    \/ \E i \in 1..Len(txs) : GetValuesSuccess(i)
    \/ \E i \in 1..Len(txs) : TxError(i)
    \/ \E i \in 1..Len(txs) : TxAbort(i)

SpecLive == Init /\ [][NextLive]_vars /\ WF_vars(TxOutcome)

----------------------------------------------------------------------------
(* Properties of the store. *)

Settled == call.status \in {"resolved", "rejected"}
ReadOps == {"getText", "getBytes", "getTextIfModified", "getBytesIfModified"}
SetOps == {"setText", "setBytes"}
FieldValue(record, field) == IF field = "text" THEN record.text ELSE record.bytes

(* C1: write-if-absent.  A setText or setBytes to a key that had no record      *)
(* completes successfully, and the store then holds exactly one record with that *)
(* key, whose text (resp. bytes) is the written value.                           *)
C1_WriteIfAbsent ==
    (call.op \in SetOps /\ Settled /\ call.key \notin Keys(pre))
        => /\ call.status = "resolved"
           /\ Cardinality({r \in store : r.key = call.key}) = 1
           /\ FieldValue(_get(store, call.key), FieldOf(call.op)) = call.fieldValue

(* C2: in every reachable state every stored record r has r.path = keyToPath(r.key). *)
C2_PathIsKeyToPath == \A r \in store : r.path = keyToPath(r.key)

(* C2 witness: a rename has moved a record to a new key that has a path. *)
C2_Witness ==
    /\ call.op \in {"renameKey", "renamePath"}
    /\ call.status = "resolved"
    /\ \E r \in store : r.key \notin Keys(pre) /\ r.path # <<>>

(* C3: every record a read operation hands back has appDataVersion equal to the *)
(* expected version, or the read fails.                                          *)
C3_ReturnedVersionIsExpected ==
    /\ (call.op \in ReadOps /\ call.status = "resolved")
        => _get(pre, call.key).appDataVersion = APP_DATA_VERSION
    /\ (call.op \in {"getAllValuesAtPath", "getValuesForKeys"} /\ call.status = "resolved")
        => \A j \in 1..Len(call.records) :
              call.records[j] # Undefined
                  => call.records[j].appDataVersion = APP_DATA_VERSION

(* C4: write-then-read.  Once setText(k, t) has completed and nothing else has *)
(* touched k, getText(k) returns t; likewise setBytes and getBytes.             *)
C4_WriteThenRead ==
    /\ (call.op = "getText" /\ Settled /\ lastSet.live /\ lastSet.field = "text"
            /\ lastSet.key = call.key)
        => (call.status = "resolved" /\ call.value = lastSet.value)
    /\ (call.op = "getBytes" /\ Settled /\ lastSet.live /\ lastSet.field = "bytes"
            /\ lastSet.key = call.key)
        => (call.status = "resolved" /\ call.value = lastSet.value)

(* C4 witness: getText has returned the text a completed setText wrote. *)
C4_Witness ==
    /\ call.op = "getText"
    /\ call.status = "resolved"
    /\ lastSet.live /\ lastSet.field = "text" /\ lastSet.key = call.key
    /\ call.value = "hello"

(* C5: a read of a key that has no record resolves to null, it does not reject, *)
(* and it leaves the store unchanged.                                            *)
C5_NotFoundReadsNull ==
    (call.op \in ReadOps /\ Settled /\ call.key \notin Keys(pre))
        => (call.status = "resolved" /\ call.value = NULL /\ store = pre)

(* C6: rename propagation.  After renamePath(currentPath, nextPath) to another  *)
(* path succeeds, every record whose key began with currentPath is stored under *)
(* nextPath followed by the remainder of its old key, payload unchanged, and    *)
(* none of the original keys prefixed by currentPath remains.                   *)
C6_RenamePropagation ==
    (call.op = "renamePath" /\ call.status = "resolved" /\ call.key # call.nextKey)
        => \A r \in pre :
              startsWith(r.key, call.key)
                  => /\ \E moved \in store :
                           /\ moved.key = call.nextKey \o slice(r.key, Len(call.key))
                           /\ moved.text = r.text
                           /\ moved.bytes = r.bytes
                     /\ r.key \notin Keys(store)

(* C7: renamePath, and the descendant cascade of renameKey, rewrite only keys  *)
(* that start with currentPath: every other record stays as it was.            *)
C7_RenameTouchesOnlyPrefixed ==
    /\ (call.op = "renamePath" /\ call.status = "resolved")
        => \A r \in pre : ~startsWith(r.key, call.key) => r \in store
    /\ (call.op = "renameKey" /\ call.status = "resolved")
        => \A r \in pre :
              (~startsWith(r.key, call.key \o <<Slash>>)
                  /\ r.key \notin {call.key, call.nextKey})
                  => r \in store

(* C8: after renameKey(currentKey, nextKey) with nextKey # currentKey succeeds  *)
(* the store holds at nextKey the record that was at currentKey, with the new   *)
(* key and path, the same text, bytes, mimeType and appDataVersion and a        *)
(* refreshed lastModified; no record remains at currentKey.                     *)
C8_RenameKeyMovesRecord ==
    (call.op = "renameKey" /\ call.status = "resolved" /\ call.key # call.nextKey)
        => LET was == _get(pre, call.key)
               is == _get(store, call.nextKey)
           IN  /\ is.key = call.nextKey
               /\ is.path = keyToPath(call.nextKey)
               /\ is.text = was.text
               /\ is.bytes = was.bytes
               /\ is.mimeType = was.mimeType
               /\ is.appDataVersion = was.appDataVersion
               /\ is.lastModified >= was.lastModified
               /\ call.key \notin Keys(store)

(* C9: renameKey cascades.  After it succeeds every record whose key began with *)
(* currentKey + "/" is stored under nextKey + "/" followed by the remainder of  *)
(* its old key, with the lastModified it had.                                   *)
C9_RenameKeyCascades ==
    (call.op = "renameKey" /\ call.status = "resolved")
        => \A r \in pre :
              startsWith(r.key, call.key \o <<Slash>>)
                  => \E moved \in store :
                        /\ moved.key = call.nextKey \o slice(r.key, Len(call.key))
                        /\ moved.lastModified = r.lastModified

(* C10: renameKey on a key that has no record fails with an error and leaves    *)
(* the store as it was: nothing is created at nextKey, no descendant is moved.  *)
C10_RenameMissingKeyFails ==
    (call.op = "renameKey" /\ call.key \notin Keys(pre))
        => /\ store = pre
           /\ call.status \in {"pending", "rejected"}
           /\ (txs = <<>> => call.status = "rejected")

(* C10 witness: the rename of a missing key was rejected while a record lives *)
(* under currentKey + "/".                                                    *)
C10_Witness ==
    /\ call.op = "renameKey"
    /\ call.key \notin Keys(pre)
    /\ call.status = "rejected"
    /\ \E r \in store : startsWith(r.key, call.key \o <<Slash>>)

(* C12: unbridgeable version gap.  A read of a key whose record is below the    *)
(* expected version, which no upgrade step brings to it, fails with an error,  *)
(* returns nothing, and the store is the store of before at every moment of    *)
(* the call: the record keeps its version and content.                         *)
C12_UnbridgeableGapFails ==
    (/\ call.op \in ReadOps
     /\ call.key \in Keys(pre)
     /\ _get(pre, call.key).appDataVersion < APP_DATA_VERSION)
        => /\ store = pre
           /\ call.status \in {"pending", "rejected"}
           /\ call.value = UNDEFINED
           /\ call.status = "rejected" => call.error = "UnupgradableRecord"

(* C12 witness: a read of a record at version 0 was rejected, the record is *)
(* still stored at version 0.                                               *)
C12_Witness ==
    /\ call.op \in ReadOps
    /\ call.status = "rejected"
    /\ call.error = "UnupgradableRecord"
    /\ call.key \in Keys(store)
    /\ _get(store, call.key).appDataVersion = 0

(* C13: VersionTooNew.  A read of a key whose stored appDataVersion is greater *)
(* than the expected version fails with an error, returns no payload and       *)
(* leaves the stored record unchanged.                                         *)
C13_VersionTooNewFails ==
    (/\ call.op \in ReadOps
     /\ call.key \in Keys(pre)
     /\ _get(pre, call.key).appDataVersion > APP_DATA_VERSION)
        => /\ store = pre
           /\ call.status \in {"pending", "rejected"}
           /\ call.value = UNDEFINED
           /\ call.status = "rejected" => call.error = "VersionTooNew"

(* C13 witness: a read of a record stored at a version above the expected one *)
(* was rejected.                                                              *)
C13_Witness ==
    /\ call.op \in ReadOps
    /\ call.status = "rejected"
    /\ call.error = "VersionTooNew"
    /\ _get(store, call.key).appDataVersion > APP_DATA_VERSION

(* C14: lastModified strictly increases per key.  Every step that completes a   *)
(* setText or setBytes on a key written by an earlier setText or setBytes, or   *)
(* that lands the record renameKey moves on such a key, stores for the key a    *)
(* lastModified strictly greater than the one stored before, also when the      *)
(* clock has not advanced between the two writes.                               *)
C14_LastModifiedIncreases ==
    [][/\ (/\ call.op \in SetOps
           /\ call.status = "pending"
           /\ call'.status = "resolved"
           /\ lastSet.live
           /\ lastSet.key = call.key)
            => _get(store', call.key).lastModified > _get(store, call.key).lastModified
       /\ (/\ call.op = "renameKey"
           /\ lastSet.live
           /\ lastSet.key = call.nextKey
           /\ call.nextKey \in Keys(store')
           /\ _get(store', call.nextKey) # _get(store, call.nextKey))
            => _get(store', call.nextKey).lastModified
                   > _get(store, call.nextKey).lastModified]_vars

(* C15: keys are unique.  The store never holds two records with the same key, *)
(* and a setText or setBytes to a key that has a record replaces that record   *)
(* in place: the set of keys in the store is the one of before.                *)
C15_KeysUnique ==
    /\ \A r1, r2 \in store : r1.key = r2.key => r1 = r2
    /\ (call.op \in SetOps /\ call.key \in Keys(pre)) => Keys(store) = Keys(pre)

(* C15 witness: a setText to a key that had a record has replaced its text. *)
C15_Witness ==
    /\ call.op = "setText"
    /\ call.status = "resolved"
    /\ call.key \in Keys(pre)
    /\ _get(pre, call.key).text # _get(store, call.key).text
    /\ Cardinality(store) = 2

(* C16: delete is idempotent.  deleteByKey and deleteAllKeys succeed whether or *)
(* not the keys have records, remove the records of the keys given and leave    *)
(* every other record as it was; the same delete applied again leaves the store *)
(* as the first application left it.                                            *)
C16_DeleteIdempotent ==
    /\ (call.op = "deleteByKey" /\ Settled)
        => /\ call.status = "resolved"
           /\ store = {r \in pre : r.key # call.key}
    /\ (call.op = "deleteAllKeys" /\ Settled)
        => /\ call.status = "resolved"
           /\ store = {r \in pre : r.key \notin Range(call.keys)}
    /\ (call.op \in {"deleteByKey", "deleteAllKeys"} /\ call.again /\ Settled)
        => store = pre

(* C16 witness: a deleteByKey applied a second time has resolved, next to a *)
(* record that neither application touched.                                 *)
C16_Witness ==
    /\ call.op = "deleteByKey"
    /\ call.again
    /\ call.status = "resolved"
    /\ call.key \notin Keys(pre)
    /\ store # {}

(* C17: rename is idempotent on re-application.  After renameKey(a, b) or      *)
(* renamePath(p, q), to a name other than the current one, has been applied,   *)
(* the same call applied again succeeds and leaves the store as the first      *)
(* application left it.                                                        *)
C17_RenameIdempotent ==
    (/\ call.op \in {"renameKey", "renamePath"}
     /\ call.key # call.nextKey
     /\ call.again
     /\ Settled)
        => /\ call.status = "resolved"
           /\ store = pre

C19_LastWriteWins ==
    (/\ call.op = "setText" /\ call.status = "resolved"
     /\ rival.op = "setText" /\ rival.status = "resolved"
     /\ call.key = rival.key)
        => /\ Cardinality({r \in store : r.key = call.key}) = 1
           /\ lastSet.live
           /\ lastSet.key = call.key
           /\ lastSet.value \in {call.fieldValue, rival.fieldValue}
           /\ _get(store, call.key).text = lastSet.value

(* C19 witness: the second caller's setText started while the first caller's *)
(* was pending and completed, and the first caller's put committed last.     *)
C19_Witness ==
    /\ call.op = "setText" /\ call.status = "resolved"
    /\ rival.op = "setText" /\ rival.status = "resolved"
    /\ call.key = rival.key
    /\ rival.overlap
    /\ call.fieldValue = "hello"
    /\ _get(store, call.key).text = "hello"

(* C21: the path lookups are exact.  getAllKeysAtPath(path) and                *)
(* getAllValuesAtPath(path) return the records whose key has keyToPath(key) =  *)
(* path, all of them and no record of a deeper or another path; and after a    *)
(* setBytes(key, bytes) on an empty store the lookup of keyToPath(key) lists   *)
(* exactly that key.                                                           *)
C21_PathLookupExact ==
    /\ (call.op = "getAllKeysAtPath" /\ call.status = "resolved")
        => call.value = SortedKeys({k \in Keys(pre) : keyToPath(k) = call.key})
    /\ (call.op = "getAllValuesAtPath" /\ call.status = "resolved")
        => /\ Range(call.records) \subseteq pre
           /\ {r.key : r \in Range(call.records)}
                  = {k \in Keys(pre) : keyToPath(k) = call.key}
    /\ (call.op = "setBytes" /\ Settled /\ pre = {})
        => IndexGetAllKeys(store, keyToPath(call.key)) = <<call.key>>

(* C24: the bulk deletes are exact.  After deleteAllKeysAtPath(path) no record *)
(* with that path remains; after deleteAllKeysAtPathExcept(path, keepKeys) the *)
(* records left at the path are those whose key is in keepKeys; every record   *)
(* of another path, sub-paths included, is left as it was.                     *)
C24_BulkDeleteExact ==
    /\ (call.op = "deleteAllKeysAtPath" /\ Settled)
        => /\ call.status = "resolved"
           /\ store = {r \in pre : r.path # call.key}
    /\ (call.op = "deleteAllKeysAtPathExcept" /\ Settled)
        => /\ call.status = "resolved"
           /\ store = {r \in pre : r.path # call.key \/ r.key \in Range(call.keys)}

(* C24 witness: deleteAllKeysAtPathExcept on the root path has deleted one   *)
(* record, kept the excepted one and left the record of the sub-path alone.  *)
C24_Witness ==
    /\ call.op = "deleteAllKeysAtPathExcept"
    /\ call.status = "resolved"
    /\ call.key = S_empty
    /\ Keys(pre) = {S_a, S_b, S_ab}
    /\ Keys(store) = {S_a, S_ab}

(* C22: getTextIfModified(k, since) on a stored key with text t returns t when *)
(* the record's lastModified is strictly greater than since and null when it   *)
(* is less than or equal to since; getBytesIfModified does the same for bytes. *)
C22_IfModifiedStrict ==
    /\ (LET record == _get(pre, call.key)
        IN  (/\ call.op = "getTextIfModified"
             /\ Settled
             /\ call.key \in Keys(pre)
             /\ record.appDataVersion = APP_DATA_VERSION
             /\ record.text \notin {NULL, UNDEFINED})
                => /\ call.status = "resolved"
                   /\ record.lastModified > call.since => call.value = record.text
                   /\ record.lastModified <= call.since => call.value = NULL)
    /\ (LET record == _get(pre, call.key)
        IN  (/\ call.op = "getBytesIfModified"
             /\ Settled
             /\ call.key \in Keys(pre)
             /\ record.appDataVersion = APP_DATA_VERSION
             /\ record.bytes \notin {NULL, UNDEFINED})
                => /\ call.status = "resolved"
                   /\ record.lastModified > call.since => call.value = record.bytes
                   /\ record.lastModified <= call.since => call.value = NULL)

(* C22 witness: right after a write at time 1, getTextIfModified with since = 0 *)
(* has returned the text written.                                               *)
C22_Witness ==
    /\ call.op = "getTextIfModified"
    /\ call.status = "resolved"
    /\ lastSet.live /\ lastSet.key = call.key /\ lastSet.field = "text"
    /\ _get(pre, call.key).lastModified = call.since + 1
    /\ call.value = "hello"

(* C23: getValuesForKeys(keys) returns a list as long as keys whose entry i is *)
(* the record stored under keys[i], or undefined when keys[i] has no record;   *)
(* a missing key neither fails the batch nor shifts the other entries.         *)
C23_ValuesForKeysByPosition ==
    (call.op = "getValuesForKeys" /\ Settled)
        => /\ call.status = "resolved"
           /\ Len(call.records) = Len(call.keys)
           /\ \A j \in 1..Len(call.keys) :
                 IF call.keys[j] \in Keys(pre)
                 THEN call.records[j] \in pre /\ call.records[j].key = call.keys[j]
                 ELSE call.records[j] = Undefined

(* C23 witness: a batch whose first key has no record and whose second has one. *)
C23_Witness ==
    /\ call.op = "getValuesForKeys"
    /\ call.status = "resolved"
    /\ Len(call.keys) = 2
    /\ call.keys[1] \notin Keys(pre)
    /\ call.keys[2] \in Keys(pre)
    /\ call.records[2].key = call.keys[2]


(* C25: getConnectionModelId throws before any connect has succeeded,      *)
(* returns the modelId of the connect that succeeded after it, and leaves  *)
(* theConnection (modelId, state, engine, connection type) as it found it. *)
C25_ModelIdReadOnly ==
    llm.last.op = "getConnectionModelId" =>
        /\ llm.last.connected = "none" => llm.last.outcome = "threw"
        /\ llm.last.connected # "none" =>
               llm.last.outcome = "returned" /\ llm.last.value = llm.last.connected
        /\ llm.last.after = llm.last.before

(* C26: keyToPath(k) is k through its last "/", keyToName(k) the rest of k; *)
(* the two concatenate to k, and keyToName(k) = k for a k without "/".      *)
C26_PathAndNameSplitKey ==
    LET k == util.arg
        hasSlash == \E i \in 1..Len(k) : k[i] = Slash
    IN  /\ "keyToPath" \in util.applied =>
               /\ Len(util.path) <= Len(k)
               /\ util.path = SubSeq(k, 1, Len(util.path))
               /\ util.path # <<>> => util.path[Len(util.path)] = Slash
               /\ \A i \in Len(util.path) + 1..Len(k) : k[i] # Slash
               /\ (k = <<>> \/ ~hasSlash) => util.path = <<>>
        /\ "keyToName" \in util.applied =>
               /\ Len(util.name) <= Len(k)
               /\ util.name = SubSeq(k, Len(k) - Len(util.name) + 1, Len(k))
               /\ \A i \in 1..Len(util.name) : util.name[i] # Slash
               /\ Len(util.name) < Len(k) => k[Len(k) - Len(util.name)] = Slash
               /\ ~hasSlash => util.name = k
               /\ (k # <<>> /\ k[Len(k)] = Slash) => util.name = <<>>
        /\ {"keyToPath", "keyToName"} \subseteq util.applied => util.path \o util.name = k

C26_Witness ==
    /\ {"keyToPath", "keyToName"} \subseteq util.applied
    /\ util.arg = <<Slash, "a", Slash, "b">>
    /\ util.path = <<Slash, "a", Slash>>
    /\ util.name = <<"b">>

(* C27 as stated: for a non-empty base without "." and ANY non-empty ext,   *)
(* splitFilenameAndExtension(base + "." + ext) = (base, lower-cased ext).   *)
C27_AnyExtension ==
    "splitFilenameAndExtension" \in util.applied =>
        \A n \in 1..Len(util.arg) :
            LET base == SubSeq(util.arg, 1, n - 1)
                ext == SubSeq(util.arg, n + 1, Len(util.arg))
            IN  (/\ util.arg[n] = Dot
                 /\ base # <<>>
                 /\ \A i \in 1..Len(base) : base[i] # Dot
                 /\ ext # <<>>)
                => util.split = <<base, toLowerCase(ext)>>

(* C27: for a non-empty base without "." and a non-empty ext without ".",   *)
(* splitFilenameAndExtension(base + "." + ext) = (base, lower-cased ext); a *)
(* filename without "." or ending in "." gives the empty extension and the  *)
(* filename less that final "." as base; with several dots the extension is *)
(* what follows the last one.                                               *)
C27_SplitAtLastDot ==
    "splitFilenameAndExtension" \in util.applied =>
        LET f == util.arg
            base == util.split[1]
            ext == util.split[2]
            hasDot == \E i \in 1..Len(f) : f[i] = Dot
        IN  /\ \A n \in 1..Len(f) :
                   LET b == SubSeq(f, 1, n - 1)
                       e == SubSeq(f, n + 1, Len(f))
                   IN  (/\ f[n] = Dot
                        /\ b # <<>>
                        /\ \A i \in 1..Len(b) : b[i] # Dot
                        /\ e # <<>>
                        /\ \A i \in 1..Len(e) : e[i] # Dot)
                       => util.split = <<b, toLowerCase(e)>>
            /\ ~hasDot => util.split = <<f, <<>>>>
            /\ (f # <<>> /\ f[Len(f)] = Dot) =>
                   util.split = <<SubSeq(f, 1, Len(f) - 1), <<>>>>
            /\ \A i \in 1..Len(ext) : ext[i] # Dot /\ ext[i] # "A"
            /\ hasDot => /\ Len(base) + 1 + Len(ext) = Len(f)
                         /\ base = SubSeq(f, 1, Len(base))
                         /\ f[Len(base) + 1] = Dot
                         /\ ext = toLowerCase(SubSeq(f, Len(base) + 2, Len(f)))

C27_Witness ==
    /\ "splitFilenameAndExtension" \in util.applied
    /\ util.arg = <<"a", Dot, "A", "a">>
    /\ util.split = <<<<"a">>, <<"a", "a">>>>

(* C28: mimeTypeToExtension gives the table's extension for a MIME type of  *)
(* the table and the empty string for every other MIME type.                *)
C28_ClosedLookup ==
    ("mimeTypeToExtension" \in util.applied /\ util.mimeType \in MimeTypeArgs) =>
        /\ util.mimeType = MIMETYPE_AUDIO_WAV => util.extension = "wav"
        /\ util.mimeType = MIMETYPE_GIF => util.extension = "gif"
        /\ util.mimeType = MIMETYPE_JPEG => util.extension = "jpg"
        /\ util.mimeType = MIMETYPE_OCTET_STREAM => util.extension = "bin"
        /\ util.mimeType = MIMETYPE_PLAIN_TEXT => util.extension = "txt"
        /\ util.mimeType = MIMETYPE_PNG => util.extension = "png"
        /\ util.mimeType = MIMETYPE_JSON => util.extension = "json"
        /\ util.mimeType \notin {MIMETYPE_AUDIO_WAV, MIMETYPE_GIF, MIMETYPE_JPEG,
                            MIMETYPE_OCTET_STREAM, MIMETYPE_PLAIN_TEXT, MIMETYPE_PNG,
                            MIMETYPE_JSON} => util.extension = ""

C28_Witness ==
    /\ "mimeTypeToExtension" \in util.applied
    /\ util.mimeType = "application/pdf"
    /\ util.extension = ""

(* C30: never-lossy rename.  From the start of renameKey or renamePath, at    *)
(* every state while it runs and after it has settled, each record the rename *)
(* is to move is stored, payload kept, under its old key or under its new     *)
(* key; and a rename one of whose transactions failed is rejected.            *)
C30_RenameNeverLossy ==
    call.op \in {"renameKey", "renamePath"} =>
        /\ \A r \in pre :
              (\/ startsWith(r.key, IF call.op = "renameKey"
                                    THEN call.key \o <<Slash>> ELSE call.key)
               \/ (call.op = "renameKey" /\ r.key = call.key))
              => \E kept \in store :
                    /\ kept.key \in {r.key, call.nextKey \o slice(r.key, Len(call.key))}
                    /\ kept.text = r.text
                    /\ kept.bytes = r.bytes
        /\ (Settled /\ call.txFailed) => call.status = "rejected"

(* The records a rename is to move, and the keys it moves them to. *)
RenamedSet ==
    {r \in pre : \/ startsWith(r.key, IF call.op = "renameKey"
                                      THEN call.key \o <<Slash>> ELSE call.key)
                 \/ (call.op = "renameKey" /\ r.key = call.key)}
DestinationKeys == {call.nextKey \o slice(r.key, Len(call.key)) : r \in RenamedSet}
PayloadCount(st, text, bytes) == Cardinality({r \in st : r.text = text /\ r.bytes = bytes})

(* C31: rename conserves records.  After a renameKey or renamePath that       *)
(* succeeds, none of whose destination keys holds a record outside the        *)
(* renamed set, the store has as many records as before and each payload as   *)
(* many times as before; a rename to the same key or path is included.        *)
C31_RenameConservesRecords ==
    (/\ call.op \in {"renameKey", "renamePath"}
     /\ call.status = "resolved"
     /\ \A r \in pre \ RenamedSet : r.key \notin DestinationKeys)
    => /\ Cardinality(store) = Cardinality(pre)
       /\ \A r \in pre \cup store :
             PayloadCount(store, r.text, r.bytes) = PayloadCount(pre, r.text, r.bytes)

(* C32: a write never bypasses the version check.  setText or setBytes on a   *)
(* key whose record has appDataVersion above the expected version fails with  *)
(* an error, and the record is, while the call runs and after it, the one     *)
(* that was stored: payload, version and lastModified unchanged.              *)
C32_WriteChecksVersion ==
    (/\ call.op \in SetOps
     /\ _get(pre, call.key) # Undefined
     /\ _get(pre, call.key).appDataVersion > APP_DATA_VERSION)
    => /\ _get(store, call.key) = _get(pre, call.key)
       /\ Settled => (call.status = "rejected" /\ call.error = "VersionTooNew")

C32_Witness ==
    /\ call.op = "setText"
    /\ call.status = "rejected"
    /\ _get(pre, call.key) # Undefined
    /\ _get(pre, call.key).appDataVersion > APP_DATA_VERSION
    /\ _get(store, call.key).text # call.fieldValue

(* C33: frame of setText and setBytes.  After setText(k, t) on an existing    *)
(* record the record has the key and the bytes it had, after setBytes(k, b)   *)
(* the key and the text it had; and at every state of either call the records *)
(* under other keys are the ones stored before it.                            *)
C33_SetFieldFrame ==
    call.op \in SetOps =>
        /\ \A r \in pre : r.key # call.key => r \in store
        /\ \A r \in store : r.key # call.key => r \in pre
        /\ (call.status = "resolved" /\ _get(pre, call.key) # Undefined) =>
              LET was == _get(pre, call.key)
                  is == _get(store, call.key)
              IN  /\ is # Undefined
                  /\ is.key = was.key
                  /\ call.op = "setText" => is.bytes = was.bytes
                  /\ call.op = "setBytes" => is.text = was.text

C33_Witness ==
    /\ call.op = "setText"
    /\ call.status = "resolved"
    /\ _get(pre, call.key) # Undefined
    /\ _get(pre, call.key).bytes = "bytes1"
    /\ _get(store, call.key).bytes = "bytes1"
    /\ _get(store, call.key).text = call.fieldValue
    /\ \E r \in store : r.key # call.key

(* C34: every public operation settles.  With every transaction eventually   *)
(* ended by the database (complete, error or abort), a call that is pending   *)
(* is eventually resolved or rejected.                                        *)
C34_EveryCallSettles == (call.status = "pending") ~> Settled

(* C35: the connection is never stuck in GENERATING.  When a generate call    *)
(* that set the state from READY to GENERATING finishes, resolved with a      *)
(* response or rejected because the engine failed, the state is READY.        *)
C35_GenerateLeavesReady ==
    (/\ llm.last.op = "generate"
     /\ llm.last.moved
     /\ \/ llm.last.outcome = "resolved"
        \/ llm.last.outcome = "rejected" /\ llm.last.value = "EngineFailed")
    => llm.last.after.state = "READY"

(* A step that adds a message to the chat history: one of the three add    *)
(* functions, generate adding its prompt, or the engine's answer added.    *)
AddsMessage ==
    \/ llm'.last.op \in {"addUserMessageToChatHistory", "addAssistantMessageToChatHistory",
                         "addToolMessageToChatHistory"}
    \/ Len(llm'.generating) > Len(llm.generating)
    \/ llm'.last.op = "generate" /\ llm'.last.outcome = "resolved" /\ llm'.last.moved

(* C36: the chat history is bounded.  Every step that adds a message leaves *)
(* at most maxChatHistorySize messages in chatHistory, and what it leaves   *)
(* is the end of the history with the new message appended: the oldest      *)
(* messages are the ones dropped.                                           *)
C36_ChatHistoryBounded ==
    [][AddsMessage =>
          LET was == chatHistory(llm)
              is == chatHistory(llm)'
              full == Append(was, is[Len(is)])
          IN  /\ Len(is) <= llm'.messages.maxChatHistorySize
              /\ is # <<>>
              /\ is = SubSeq(full, Len(full) - Len(is) + 1, Len(full))]_vars

(* C37: save and restore of the chat configuration.  restoreChatConfiguration *)
(* sets systemMessage, maxChatHistorySize and the contents of chatHistory to  *)
(* what they were at the last saveChatConfiguration; with nothing saved it    *)
(* throws and changes nothing.                                                *)
C37_RestoreGivesSaved ==
    [][llm'.last.op = "restoreChatConfiguration" =>
          IF llm.savedMessages.null
          THEN /\ llm'.last.outcome = "threw"
               /\ ChatConfiguration(llm') = ChatConfiguration(llm)
          ELSE /\ llm'.last.outcome = "returned"
               /\ ChatConfiguration(llm') = llm.snapshot]_vars

(* C38: model loading is mutually exclusive.  At most one connect is in     *)
(* flight; a startLoadingModel call made while a load is in progress or     *)
(* after one has succeeded returns false and calls no connect; and when no  *)
(* load is in progress and none has succeeded, a failed one included, the   *)
(* in-progress flag is clear.                                               *)
C38_LoadingExclusive ==
    /\ [](/\ Len(llm.loading) <= 1
          /\ (llm.loading = <<>> /\ llm.connected = "none")
                => (~llm.isInitializing /\ ~llm.isInitialized))
    /\ [][(/\ llm'.last.op = "startLoadingModel"
            /\ llm'.last.outcome \in {"returned", "awaiting"}
            /\ (llm.loading # <<>> \/ llm.connected # "none"))
           => /\ llm'.last.outcome = "returned"
              /\ llm'.last.value = "false"
              /\ llm'.loading = llm.loading
              /\ llm'.theConnection = llm.theConnection]_vars

C38_Witness ==
    /\ llm.last.op = "startLoadingModel"
    /\ llm.last.outcome = "returned"
    /\ llm.last.value = "false"
    /\ Len(llm.loading) = 1
    /\ llm.failed

====
